---- MODULE Spec2Model ----
(***************************************************************************)
(* VirbPy: batch conversion of Garmin VIRB *.fit telemetry to *.xlsx.      *)
(*                                                                         *)
(* processing_pipeline scans a directory for *.fit files, calls the        *)
(* external GMetrixConverter for every file that has no *.json sibling,    *)
(* queues the expected *.json paths and then turns every queued JSON into  *)
(* a spreadsheet with fit_json_to_excel.                                   *)
(*                                                                         *)
(* Representation.                                                         *)
(*  - A timestamp string is [valid, ms]: whether dateutil's parse accepts  *)
(*    it and, if so, the instant it denotes in milliseconds.               *)
(*  - A datetime is an integer number of microseconds (the resolution of   *)
(*    datetime); timedelta.total_seconds() is kept exact as that number of *)
(*    microseconds (the float it returns is this number / 10^6).           *)
(*  - A DataFrame is [index, columns, rows]: the row labels, the column    *)
(*    labels and the cells row by row; a cell is [nan, v].                 *)
(*  - pandas: pd.concat(axis=1, sort=False) as documented and as           *)
(*    implemented by pandas 2.x (empty frames are dropped, the row labels  *)
(*    are united in order of first appearance, a frame whose labels differ *)
(*    from the union is reindexed, and reindexing a frame with duplicate   *)
(*    labels raises InvalidIndexError). Older pandas releases sort the      *)
(*    united labels of two numeric indexes; a single frame is passed       *)
(*    through unsorted and with its duplicate labels by every release.     *)
(***************************************************************************)
EXTENDS Integers, Sequences, FiniteSets, TLC

(***************************************************************************)
(* Bounds of the model.                                                    *)
(***************************************************************************)
MaxStamp == 2
MaxVal == 2
MaxSamples == 2
MaxChannels == 2
MaxFiles == 3

(***************************************************************************)
(* Sequence helpers.                                                       *)
(***************************************************************************)
SeqsUpTo(S, n) == UNION {[1..k -> S] : k \in 0..n}

Range(s) == {s[i] : i \in 1..Len(s)}

\* Position of the first occurrence of x in s, 0 when absent (pandas: -1).
FirstPos(s, x) ==
    IF \E i \in 1..Len(s) : s[i] = x
    THEN CHOOSE i \in 1..Len(s) : s[i] = x /\ \A j \in 1..(i - 1) : s[j] # x
    ELSE 0

Count(s, x) == Cardinality({i \in 1..Len(s) : s[i] = x})

\* Index.is_unique negated.
HasDuplicates(s) == \E i, j \in 1..Len(s) : i # j /\ s[i] = s[j]

\* Index.unique(): the first occurrence of every label, in order.
RECURSIVE Unique(_)
Unique(s) ==
    IF s = <<>> THEN <<>>
    ELSE LET init == Unique(SubSeq(s, 1, Len(s) - 1))
             last == s[Len(s)]
         IN  IF last \in Range(init) THEN init ELSE Append(init, last)

(***************************************************************************)
(* Timestamps: dateutil.parser.parse and _time_since_start.                *)
(***************************************************************************)
Stamps ==
    {[valid |-> TRUE, ms |-> m] : m \in 0..MaxStamp} \cup {[valid |-> FALSE, ms |-> 0]}

\* parse(): raises ParserError on an unparseable string, else the datetime.
parse(timestamp) == [ok |-> timestamp.valid, micros |-> timestamp.ms * 1000]

\* _time_since_start: (parse(timestamp) - start_time).total_seconds().
time_since_start(timestamp, start_time) == parse(timestamp).micros - start_time

(***************************************************************************)
(* Converter output documents.                                             *)
(***************************************************************************)
Values == 1..MaxVal

ChannelTypes == {"Altitude", "Temperature"}

\* A sample always carries "time" and one or more channel-specific fields.
Samples ==
    {[time |-> t, some_value |-> v] : t \in Stamps, v \in Values}
    \cup {[time |-> t, some_value |-> 1, other_value |-> 1] : t \in Stamps}

ChannelSeries == [type : ChannelTypes, values : SeqsUpTo(Samples, MaxSamples)]

ConverterOutput ==
    [metadata : [startTime : Stamps], typedata : SeqsUpTo(ChannelSeries, MaxChannels)]

(***************************************************************************)
(* pandas DataFrames.                                                      *)
(***************************************************************************)
NaN == [nan |-> TRUE, v |-> 0]
Cell(x) == [nan |-> FALSE, v |-> x]

\* pd.DataFrame()
EmptyFrame == [index |-> <<>>, columns |-> <<>>, rows |-> <<>>]

\* sum(obj.shape) > 0 negated
IsEmptyFrame(df) == Len(df.index) + Len(df.columns) = 0

\* The column labels of pd.DataFrame(values) other than "time".
NonTimeKeys(values) == UNION {DOMAIN values[i] \ {"time"} : i \in 1..Len(values)}

\* Index.get_indexer(target) of a unique index: positions, 0 for a missing label.
get_indexer(labels, target) == [i \in 1..Len(target) |-> FirstPos(labels, target[i])]

\* union_indexes(sort=False): equal indexes pass through, else the unique labels
\* of the first followed by the unique labels of the second it lacks.
union_indexes(a, b) ==
    IF a = b THEN a
    ELSE LET result == Unique(a)
             diff == SelectSeq(b, LAMBDA x : x \notin Range(a))
         IN  result \o Unique(diff)

\* Mutant: a missing label is filled from the frame's first row.
ReindexFilled(df, new_index) ==
    LET indexer == get_indexer(df.index, new_index)
    IN  [index |-> new_index,
         columns |-> df.columns,
         rows |-> [r \in 1..Len(new_index) |->
                     df.rows[IF indexer[r] = 0 THEN 1 ELSE indexer[r]]]]

\* DataFrame.reindex over a unique index: a missing label gives a row of NaN.
Reindex(df, new_index) ==
    LET indexer == get_indexer(df.index, new_index)
    IN  [index |-> new_index,
         columns |-> df.columns,
         rows |-> [r \in 1..Len(new_index) |->
                     IF indexer[r] = 0
                     THEN [c \in 1..Len(df.columns) |-> NaN]
                     ELSE df.rows[indexer[r]]]]

\* pd.concat([all_dfs, test], axis=1, sort=False)
concat(all_dfs, test) ==
    IF IsEmptyFrame(all_dfs) THEN [err |-> "none", frame |-> test]
    ELSE LET new_index == union_indexes(all_dfs.index, test.index)
             needs(df) == new_index # df.index
         IN  IF \/ needs(all_dfs) /\ HasDuplicates(all_dfs.index)
                \/ needs(test) /\ HasDuplicates(test.index)
             THEN [err |-> "InvalidIndexError", frame |-> all_dfs]
             ELSE LET l == IF needs(all_dfs) THEN Reindex(all_dfs, new_index) ELSE all_dfs
                      r == IF needs(test) THEN Reindex(test, new_index) ELSE test
                  IN  [err |-> "none",
                       frame |-> [index |-> new_index,
                                  columns |-> l.columns \o r.columns,
                                  rows |-> [i \in 1..Len(new_index) |->
                                              l.rows[i] \o r.rows[i]]]]

(***************************************************************************)
(* fit_json_to_excel.                                                      *)
(***************************************************************************)
\* Mutant: the column keeps the name of the sample's field.
ColumnLabelsNotRenamed(data_type) == <<"some_value">>

\* The new column labels: [data_type["type"]].
ColumnLabels(data_type) == <<data_type.type>>

\* Mutant: the first value column is kept and the others are dropped.
LengthMismatchIgnored(keys, labels) == FALSE

\* test.columns = labels raises ValueError (length mismatch) unless the frame
\* has as many columns as there are labels.
LengthMismatch(keys, labels) == Cardinality(keys) # Len(labels)

\* The body of the loop up to the concat: pd.DataFrame(values), the "time"
\* column mapped through _time_since_start, set_index("time") and the
\* assignment of the one-element column list.
ChannelFrame(data_type, start_time) ==
    LET values == data_type.values
        keys == NonTimeKeys(values)
    IN  IF values = <<>>
        THEN [err |-> "KeyError", frame |-> EmptyFrame]
        ELSE IF \E i \in 1..Len(values) : ~parse(values[i].time).ok
        THEN [err |-> "ParserError", frame |-> EmptyFrame]
        ELSE IF LengthMismatch(keys, ColumnLabels(data_type))
        THEN [err |-> "ValueError", frame |-> EmptyFrame]
        ELSE LET k == CHOOSE f \in keys : TRUE
             IN  [err |-> "none",
                  frame |->
                    [index |-> [i \in 1..Len(values) |->
                                  time_since_start(values[i].time, start_time)],
                     columns |-> ColumnLabels(data_type),
                     rows |-> [i \in 1..Len(values) |->
                                 IF k \in DOMAIN values[i]
                                 THEN <<Cell(values[i][k])>>
                                 ELSE <<NaN>>]]]

\* for data_type in raw_data["typedata"]: ... all_dfs = pd.concat([all_dfs, test], ...)
RECURSIVE MergeChannels(_, _, _)
MergeChannels(all_dfs, typedata, start_time) ==
    IF typedata = <<>> THEN [err |-> "none", frame |-> all_dfs]
    ELSE LET test == ChannelFrame(Head(typedata), start_time)
         IN  IF test.err # "none" THEN [err |-> test.err, frame |-> all_dfs]
             ELSE LET merged == concat(all_dfs, test.frame)
                  IN  IF merged.err # "none" THEN merged
                      ELSE MergeChannels(merged.frame, Tail(typedata), start_time)

\* What a path holds: no file, a file that is not JSON, or a converter document.
EmptyDoc == [metadata |-> [startTime |-> [valid |-> TRUE, ms |-> 0]], typedata |-> <<>>]
Absent == [kind |-> "absent", doc |-> EmptyDoc]
Malformed == [kind |-> "malformed", doc |-> EmptyDoc]
Document(d) == [kind |-> "doc", doc |-> d]

\* fit_json_to_excel(in_filepath): the exception it raises ("none" when it
\* returns) and the table it hands to to_excel.
fit_json_to_excel(content, writable) ==
    IF content.kind = "absent" THEN [err |-> "FileNotFoundError", frame |-> EmptyFrame]
    ELSE IF content.kind = "malformed"
    THEN [err |-> "JSONDecodeError", frame |-> EmptyFrame]
    ELSE LET raw_data == content.doc
             start == parse(raw_data.metadata.startTime)
         IN  IF ~start.ok THEN [err |-> "ParserError", frame |-> EmptyFrame]
             ELSE LET all_dfs == MergeChannels(EmptyFrame, raw_data.typedata, start.micros)
                  IN  IF all_dfs.err # "none" THEN [err |-> all_dfs.err, frame |-> EmptyFrame]
                      ELSE IF ~writable
                      THEN [err |-> "PermissionError", frame |-> EmptyFrame]
                      ELSE all_dfs

(***************************************************************************)
(* processing_pipeline.                                                    *)
(***************************************************************************)
Stems == 1..MaxFiles

\* The documents the converter writes in the pipeline model: the sample of the
\* docstring of fit_json_to_excel (one channel, one sample) and one whose
\* startTime does not parse.
SampleDoc ==
    [metadata |-> [startTime |-> [valid |-> TRUE, ms |-> 0]],
     typedata |-> <<[type |-> "Altitude",
                     values |-> <<[time |-> [valid |-> TRUE, ms |-> 1],
                                   some_value |-> 1]>>]>>]
BadStartDoc ==
    [metadata |-> [startTime |-> [valid |-> FALSE, ms |-> 0]], typedata |-> <<>>]
PipelineContents == {Malformed, Document(SampleDoc), Document(BadStartDoc)}

NoTable == [exists |-> FALSE, table |-> EmptyFrame]
Table(df) == [exists |-> TRUE, table |-> df]

VARIABLES
    fits,                    \* stems of the *.fit files under data_dir
    json,                    \* stem -> what <stem>.json holds
    xlsx,                    \* stem -> what <stem>.xlsx holds
    pc,                      \* "scan", "excel", "done" or "raised"
    toScan,                  \* *.fit files rglob has not yielded yet
    hadJson,                 \* stem -> "unscanned" | "yes" | "no": file_as_json.exists()
    excel_conversion_queue,  \* stems of the queued *.json paths
    qi,                      \* position of the second loop in the queue
    converterCalls,          \* history: call_converter invocations, in order
    excelCalls,              \* history: fit_json_to_excel invocations, in order
    error                    \* the exception that left processing_pipeline

vars ==
    <<fits, json, xlsx, pc, toScan, hadJson, excel_conversion_queue, qi,
      converterCalls, excelCalls, error>>

\* file_as_json.exists()
Exists(stem) == json[stem].kind # "absent"

\* Mutant: the existence check is dropped and every file is converted again.
SkipConversionNever(stem) == FALSE

\* if file_as_json.exists(): continue
SkipConversion(stem) == Exists(stem)

\* The child process of subprocess.run: it cannot be started, exits non-zero
\* (leaving nothing or a partial file) or exits zero having written a document.
ConverterOutcomes ==
    {[outcome |-> "launch_failed", written |-> Absent]}
    \cup {[outcome |-> "nonzero", written |-> w] : w \in {Absent, Malformed}}
    \cup {[outcome |-> "exit0", written |-> w] :
             w \in {Document(SampleDoc), Document(BadStartDoc)}}

\* Mutant: subprocess.run(cmd, check=True), a non-zero exit raises too.
call_converter_checked(result) == result.outcome # "exit0"

\* call_converter: subprocess.run(cmd) without check=True raises only when the
\* process cannot be started; the exit status is dropped.
call_converter_raises(result) == result.outcome = "launch_failed"

\* Mutant: the path is queued twice.
EnqueueTwice(queue, file_as_json) == Append(Append(queue, file_as_json), file_as_json)

\* excel_conversion_queue.append(file_as_json)
Enqueue(queue, file_as_json) == Append(queue, file_as_json)

\* Mutant: the queue is walked from its end.
NextJsonReversed(queue, i) == queue[Len(queue) + 1 - i]

\* for new_json in excel_conversion_queue: the path of the i-th iteration.
NextJson(queue, i) == queue[i]

\* Mutant: a failing file is caught and skipped, the batch goes on.
PropagatesNothing(err) == FALSE

\* Neither loop has a try/except: whatever fit_json_to_excel raises leaves
\* processing_pipeline.
Propagates(err) == err # "none"

Init ==
    /\ fits \in SUBSET Stems
    /\ json \in [Stems -> PipelineContents \cup {Absent}]
    /\ \A s \in Stems \ fits : json[s] = Absent
    /\ xlsx = [s \in Stems |-> NoTable]
    /\ pc = "scan"
    /\ toScan = fits
    /\ hadJson = [s \in Stems |-> "unscanned"]
    /\ excel_conversion_queue = <<>>
    /\ qi = 1
    /\ converterCalls = <<>>
    /\ excelCalls = <<>>
    /\ error = "none"

\* First loop, a file with a *.json partner: continue.
ScanSkip(fit_file) ==
    /\ pc = "scan"
    /\ fit_file \in toScan
    /\ SkipConversion(fit_file)
    /\ toScan' = toScan \ {fit_file}
    /\ hadJson' = [hadJson EXCEPT ![fit_file] = IF Exists(fit_file) THEN "yes" ELSE "no"]
    /\ UNCHANGED <<fits, json, xlsx, pc, excel_conversion_queue, qi, converterCalls,
                   excelCalls, error>>

\* First loop, a file without one: call_converter, then queue the *.json path.
ScanConvert(fit_file, result) ==
    /\ pc = "scan"
    /\ fit_file \in toScan
    /\ ~SkipConversion(fit_file)
    /\ toScan' = toScan \ {fit_file}
    /\ hadJson' = [hadJson EXCEPT ![fit_file] = IF Exists(fit_file) THEN "yes" ELSE "no"]
    /\ converterCalls' =
         Append(converterCalls,
                [stem |-> fit_file, outcome |-> result.outcome, written |-> result.written])
    /\ IF call_converter_raises(result)
       THEN /\ pc' = "raised"
            /\ error' = "FileNotFoundError"
            /\ UNCHANGED <<json, excel_conversion_queue>>
       ELSE /\ json' = [json EXCEPT ![fit_file] = result.written]
            /\ excel_conversion_queue' = Enqueue(excel_conversion_queue, fit_file)
            /\ UNCHANGED <<pc, error>>
    /\ UNCHANGED <<fits, xlsx, qi, excelCalls>>

\* rglob is exhausted: the second loop starts.
ScanEnd ==
    /\ pc = "scan"
    /\ toScan = {}
    /\ pc' = "excel"
    /\ UNCHANGED <<fits, json, xlsx, toScan, hadJson, excel_conversion_queue, qi,
                   converterCalls, excelCalls, error>>

\* Second loop: fit_json_to_excel(new_json).
ExcelStep(writable) ==
    /\ pc = "excel"
    /\ qi <= Len(excel_conversion_queue)
    /\ LET new_json == NextJson(excel_conversion_queue, qi)
           res == fit_json_to_excel(json[new_json], writable)
       IN  /\ excelCalls' = Append(excelCalls, [stem |-> new_json, err |-> res.err])
           /\ IF Propagates(res.err)
              THEN /\ pc' = "raised"
                   /\ error' = res.err
                   /\ UNCHANGED <<xlsx, qi>>
              ELSE /\ xlsx' = IF res.err = "none"
                              THEN [xlsx EXCEPT ![new_json] = Table(res.frame)]
                              ELSE xlsx
                   /\ qi' = qi + 1
                   /\ UNCHANGED <<pc, error>>
    /\ UNCHANGED <<fits, json, toScan, hadJson, excel_conversion_queue, converterCalls>>

\* The queue is exhausted: processing_pipeline returns.
ExcelEnd ==
    /\ pc = "excel"
    /\ qi > Len(excel_conversion_queue)
    /\ pc' = "done"
    /\ UNCHANGED <<fits, json, xlsx, toScan, hadJson, excel_conversion_queue, qi,
                   converterCalls, excelCalls, error>>

Next ==
    \/ \E f \in Stems : ScanSkip(f)
    \/ \E f \in Stems, r \in ConverterOutcomes : ScanConvert(f, r)
    \/ ScanEnd
    \/ \E w \in BOOLEAN : ExcelStep(w)
    \/ ExcelEnd

Spec == Init /\ [][Next]_vars

(***************************************************************************)
(* fit_json_to_excel on every bounded converter document: the pipeline at  *)
(* the start of its second loop, one *.json queued, written by the         *)
(* converter.                                                              *)
(***************************************************************************)
InitTable ==
    /\ fits = {1}
    /\ \E d \in ConverterOutput :
          json = [s \in Stems |-> IF s = 1 THEN Document(d) ELSE Absent]
    /\ xlsx = [s \in Stems |-> NoTable]
    /\ pc = "excel"
    /\ toScan = {}
    /\ hadJson = [s \in Stems |-> IF s = 1 THEN "no" ELSE "unscanned"]
    /\ excel_conversion_queue = <<1>>
    /\ qi = 1
    /\ converterCalls = <<[stem |-> 1, outcome |-> "exit0", written |-> json[1]]>>
    /\ excelCalls = <<>>
    /\ error = "none"

NextTable ==
    \/ \E w \in BOOLEAN : ExcelStep(w)
    \/ ExcelEnd

SpecTable == InitTable /\ [][NextTable]_vars

(***************************************************************************)
(* Properties of processing_pipeline.                                      *)
(***************************************************************************)
ConverterStems == [k \in 1..Len(converterCalls) |-> converterCalls[k].stem]
ExcelStems == [k \in 1..Len(excelCalls) |-> excelCalls[k].stem]
Tables == {f \in Stems : xlsx[f].exists}
Unconverted == {f \in fits : hadJson[f] = "no"}
IsPrefix(s, t) == Len(s) <= Len(t) /\ SubSeq(t, 1, Len(s)) = s

\* What the converter call for f left at f's *.json path.
WrittenFor(f) ==
    converterCalls[CHOOSE k \in 1..Len(converterCalls) : converterCalls[k].stem = f].written

\* C1. Skip-if-exists: a *.fit file whose *.json sibling exists when it is
\* scanned is never handed to call_converter, never queued and never handed to
\* fit_json_to_excel.
C1_SkipIfExists ==
    \A f \in Stems :
        hadJson[f] = "yes" =>
            /\ f \notin Range(ConverterStems)
            /\ f \notin Range(excel_conversion_queue)
            /\ f \notin Range(ExcelStems)

\* A finished run that skipped one file and converted another.
C1_Witness ==
    /\ pc = "done"
    /\ \E f, g \in fits : hadJson[f] = "yes" /\ hadJson[g] = "no" /\ xlsx[g].exists

C7_QueuedRegardless ==
    \A k \in 1..Len(converterCalls) :
        converterCalls[k].stem \in Range(excel_conversion_queue)

\* C7 amended. A converter call that exits, with whatever status, has its
\* *.json path queued and does not stop the scan; a converter that cannot be
\* started raises out of processing_pipeline: its path is not queued, it is the
\* last converter call and fit_json_to_excel is never called.
C7_QueuedUnlessLaunchFails ==
    \A k \in 1..Len(converterCalls) :
        IF converterCalls[k].outcome = "launch_failed"
        THEN /\ converterCalls[k].stem \notin Range(excel_conversion_queue)
             /\ k = Len(converterCalls)
             /\ pc = "raised" /\ error = "FileNotFoundError"
             /\ excelCalls = <<>>
        ELSE /\ converterCalls[k].stem \in Range(excel_conversion_queue)
             /\ error # "none" => excelCalls # <<>> \/ k < Len(converterCalls)

\* A converter call that exited non-zero was queued and the scan went on to
\* convert another file.
C7_Witness ==
    \E k \in 1..Len(converterCalls) :
        /\ converterCalls[k].outcome = "nonzero"
        /\ converterCalls[k].stem \in Range(excel_conversion_queue)
        /\ k < Len(converterCalls)
        /\ converterCalls[k + 1].outcome = "exit0"

\* C8. Phase ordering: the fit_json_to_excel calls are always the queue's
\* paths in queue order, a prefix of the queue that is the whole queue when
\* processing_pipeline returns, and once fit_json_to_excel has been called no
\* further converter call is made and nothing more is queued.
C8_PhaseOrdering ==
    /\ [](/\ IsPrefix(ExcelStems, excel_conversion_queue)
          /\ pc = "done" => ExcelStems = excel_conversion_queue)
    /\ [][excelCalls' # <<>> =>
            /\ converterCalls' = converterCalls
            /\ excel_conversion_queue' = excel_conversion_queue]_vars

\* A finished run with two queued paths, both tabulated.
C8_Witness ==
    /\ pc = "done"
    /\ Len(excel_conversion_queue) >= 2
    /\ Len(excelCalls) = Len(excel_conversion_queue)

\* C10. Failure propagation: a fit_json_to_excel call that raises is the last
\* one; the exception leaves processing_pipeline, which takes no further step;
\* the paths queued after it are never tabulated, have no table, and still
\* hold what the converter wrote.
C10_FailureAborts ==
    \A k \in 1..Len(excelCalls) :
        excelCalls[k].err # "none" =>
            /\ k = Len(excelCalls)
            /\ pc = "raised" /\ error = excelCalls[k].err
            /\ excelCalls[k].stem = excel_conversion_queue[k]
            /\ ~ENABLED Next
            /\ \A j \in (k + 1)..Len(excel_conversion_queue) :
                  LET later == excel_conversion_queue[j]
                  IN  /\ later \notin Range(ExcelStems)
                      /\ later \notin Tables
                      /\ json[later] = WrittenFor(later)

\* The first of two queued paths failed while the converter had written a
\* document for the second.
C10_Witness ==
    /\ Len(excel_conversion_queue) >= 2
    /\ Len(excelCalls) = 1
    /\ excelCalls[1].err # "none"
    /\ json[excel_conversion_queue[2]].kind = "doc"

(***************************************************************************)
(* Properties of fit_json_to_excel, stated on the document a *.json holds  *)
(* and the table its *.xlsx holds.                                         *)
(***************************************************************************)
DocOf(f) == json[f].doc
TableOf(f) == xlsx[f].table
ChannelsOf(doc) == 1..Len(doc.typedata)
SamplesOf(doc, c) == 1..Len(doc.typedata[c].values)

\* The elapsed time of sample i of channel c, in microseconds.
Elapsed(doc, c, i) ==
    (doc.typedata[c].values[i].time.ms - doc.metadata.startTime.ms) * 1000

ElapsedOfChannel(doc, c) == {Elapsed(doc, c, i) : i \in SamplesOf(doc, c)}
AllElapsed(doc) == UNION {ElapsedOfChannel(doc, c) : c \in ChannelsOf(doc)}

\* The value sample i of channel c carries in its one channel-specific field.
SampleValue(doc, c, i) ==
    LET sample == doc.typedata[c].values[i]
    IN  sample[CHOOSE k \in DOMAIN sample \ {"time"} : TRUE]

\* Some channel's samples carry more than one channel-specific field.
MultiField(doc) ==
    \E c \in ChannelsOf(doc) : Cardinality(NonTimeKeys(doc.typedata[c].values)) > 1

\* C3 as stated. The table has as many rows as there are distinct elapsed-time
\* values across all channels' samples.
C3_RowCountIsDistinctTimes ==
    \A f \in Tables : Len(TableOf(f).index) = Cardinality(AllElapsed(DocOf(f)))

\* C4. Exact-match outer merge: in a table fit_json_to_excel wrote, the cell of
\* a row with key t in channel c's column is populated exactly when channel c
\* has a sample whose elapsed time is t, and then holds the value of such a
\* sample; every sample's value stands in a row keyed by its elapsed time; and
\* two channels that share no elapsed time give len(channel1) + len(channel2)
\* rows, each populated in exactly one of the two columns.
C4_ExactMatchMerge ==
    \A f \in Tables :
        LET doc == DocOf(f)
            T == TableOf(f)
            rows == 1..Len(T.index)
        IN  /\ \A r \in rows, c \in ChannelsOf(doc) :
                  LET hits == {i \in SamplesOf(doc, c) : Elapsed(doc, c, i) = T.index[r]}
                  IN  /\ T.rows[r][c].nan <=> hits = {}
                      /\ ~T.rows[r][c].nan =>
                            \E i \in hits : T.rows[r][c].v = SampleValue(doc, c, i)
            /\ \A c \in ChannelsOf(doc) : \A i \in SamplesOf(doc, c) :
                  \E r \in rows :
                      /\ T.index[r] = Elapsed(doc, c, i)
                      /\ T.rows[r][c] = Cell(SampleValue(doc, c, i))
            /\ (/\ Len(doc.typedata) = 2
                /\ ElapsedOfChannel(doc, 1) \cap ElapsedOfChannel(doc, 2) = {}) =>
                  /\ Len(T.index) =
                        Len(doc.typedata[1].values) + Len(doc.typedata[2].values)
                  /\ \A r \in rows : T.rows[r][1].nan # T.rows[r][2].nan

\* A channel of two samples and a channel of one sample whose elapsed time
\* lies between theirs: three rows.
C4_Witness ==
    \E f \in Tables :
        /\ Len(DocOf(f).typedata) = 2
        /\ ElapsedOfChannel(DocOf(f), 1) \cap ElapsedOfChannel(DocOf(f), 2) = {}
        /\ Len(DocOf(f).typedata[1].values) = 2
        /\ Len(TableOf(f).index) = 3
        /\ \E r \in 1..3 : TableOf(f).rows[r][1].nan /\ ~TableOf(f).rows[r][2].nan

\* C5 as stated. The rows of the table are in ascending order of the
\* elapsed-time key.
C5_RowsAscending ==
    \A f \in Tables :
        \A i, j \in 1..Len(TableOf(f).index) :
            i < j => TableOf(f).index[i] <= TableOf(f).index[j]

\* C6. In a table fit_json_to_excel wrote, the column labels are the channels'
\* types in typedata order, one column and one cell per row for each channel.
C6_OneColumnPerChannel ==
    \A f \in Tables :
        LET doc == DocOf(f)
            T == TableOf(f)
        IN  /\ T.columns = [c \in ChannelsOf(doc) |-> doc.typedata[c].type]
            /\ \A r \in 1..Len(T.index) : Len(T.rows[r]) = Len(doc.typedata)

\* A table of two channels, "Temperature" before "Altitude".
C6_Witness ==
    \E f \in Tables :
        /\ Len(DocOf(f).typedata) = 2
        /\ TableOf(f).columns = <<"Temperature", "Altitude">>
        /\ Len(TableOf(f).index) >= 2

\* The parts of a document that make fit_json_to_excel raise before or apart
\* from the column assignment: timestamps that do not parse, a channel without
\* samples, a channel with a repeated elapsed time.
Unremarkable(doc) ==
    /\ doc.metadata.startTime.valid
    /\ \A c \in ChannelsOf(doc) :
          /\ doc.typedata[c].values # <<>>
          /\ \A i \in SamplesOf(doc, c) : doc.typedata[c].values[i].time.valid
          /\ \A i, j \in SamplesOf(doc, c) :
                i # j => Elapsed(doc, c, i) # Elapsed(doc, c, j)

\* C9 as stated. A channel whose samples carry more than one non-time field
\* makes fit_json_to_excel raise nothing: the table is written, with one
\* column for that channel.
C9_SilentCollapse ==
    \A k \in 1..Len(excelCalls) :
        LET f == excelCalls[k].stem
        IN  (MultiField(DocOf(f)) /\ Unremarkable(DocOf(f))) =>
                \/ excelCalls[k].err = "PermissionError"
                \/ /\ excelCalls[k].err = "none"
                   /\ f \in Tables
                   /\ Len(TableOf(f).columns) = Len(DocOf(f).typedata)

\* C9 amended. A channel whose samples carry more than one non-time field
\* makes fit_json_to_excel raise and write no table; the exception is the
\* ValueError of the column assignment unless a timestamp that does not parse,
\* a channel without samples or a repeated elapsed time raised first.
C9_MultiFieldRaises ==
    \A k \in 1..Len(excelCalls) :
        LET f == excelCalls[k].stem
        IN  MultiField(DocOf(f)) =>
                /\ excelCalls[k].err \in
                      {"ValueError", "ParserError", "KeyError", "InvalidIndexError"}
                /\ f \notin Tables
                /\ Unremarkable(DocOf(f)) => excelCalls[k].err = "ValueError"

\* A one-field channel followed by a two-field channel: ValueError.
C9_Witness ==
    \E k \in 1..Len(excelCalls) :
        LET doc == DocOf(excelCalls[k].stem)
        IN  /\ excelCalls[k].err = "ValueError"
            /\ Len(doc.typedata) = 2
            /\ Cardinality(NonTimeKeys(doc.typedata[1].values)) = 1
            /\ Cardinality(NonTimeKeys(doc.typedata[2].values)) = 2

====
